---- MODULE Spec2Model ----
(***************************************************************************)
(* Model of the video similarity worker of src/ai: the timeline segmenter  *)
(* generate_timestamps (src/ai/main.py) as a pure operator, and the        *)
(* polling worker main / process_video with the Firestore job store        *)
(* (src/ai/src/firebase/firebase_handler.py) as a state machine.  The      *)
(* time formatting, the frame extraction, the detector, the loading of     *)
(* the reference corpus and the frame matcher are operators, each applied  *)
(* to its arguments by a specification of its own.                         *)
(*                                                                         *)
(* Numbers.  fps is drawn from small integers (a real fps is a float);     *)
(* a duration n / fps is kept as the exact fraction.  min_duration and     *)
(* duration_seconds are kept in hundredths of a second.  For the values    *)
(* drawn here the float results of the source agree with the exact ones    *)
(* in every comparison against min_duration, in round(.., 2) and in the    *)
(* format {:.1f}: the only ties of the roundings are at fps = 8 and are    *)
(* exact binary fractions, where Python rounds half to even.  The          *)
(* milliseconds of frame_to_time are where the double of n / fps shows:    *)
(* FloatMilliseconds computes what the IEEE-754 operations give.           *)
(***************************************************************************)
EXTENDS Integers, Sequences, FiniteSets, TLC

\* ------------------------------------------------------------------ bounds
MaxFlags == 7        \* longest boolean flag array passed to the segmenter
MaxIndices == 3      \* longest frame-index list passed to the segmenter
MaxIndex == 3        \* largest frame index in an index list
MaxCalls == 2        \* successive calls made on one argument list
NumVideos == 2       \* documents in youtube_videos at start
MaxFrames == 3       \* frames extracted from one video
MaxFrameNumber == 40 \* frame numbers 0..MaxFrameNumber are all formatted
MaxDetections == 2   \* detections in one detection set
MaxCandidates == 2   \* candidate frames handed to the frame matcher
MaxReference == 2    \* detection sets in a reference corpus
MaxSourceFrames == 3 \* frames a video file can be read for
MaxImages == 3       \* images handed to one call of the detector
MaxRefFrames == 9    \* frames extracted from the reference video
MaxVerdictFrames == 12 \* every frame count up to this one gets a verdict

FpsValues == {-1, 0, 1, 3, 8, 10}
MinDurationValues == {0, 25, 50}     \* hundredths of a second

\* --------------------------------------------------------- Python values
\* A list element: a bool (a subclass of int: True == 1) or an int.
PyBool(b) == [isbool |-> TRUE, val |-> IF b THEN 1 ELSE 0]
PyInt(i) == [isbool |-> FALSE, val |-> i]

BoolItems == {PyBool(TRUE), PyBool(FALSE)}
IntItems == {PyInt(i) : i \in 0..MaxIndex}

\* What a call gives back: a value, or the exception it raised.
Returned(v) == [error |-> "None", value |-> v]
Raised(e) == [error |-> e, value |-> <<>>]

\* ------------------------------------------------------------ arithmetic
Abs(x) == IF x < 0 THEN -x ELSE x
Sign(x) == IF x < 0 THEN -1 ELSE 1
Min2(a, b) == IF a <= b THEN a ELSE b

\* round(n / d, 0) of the exact fraction, half to even (d # 0)
RoundHalfEven(n, d) ==
    LET a == Abs(n)
        b == Abs(d)
        q == a \div b
        r == a % b
        m == IF 2 * r < b THEN q
             ELSE IF 2 * r > b THEN q + 1
             ELSE IF q % 2 = 0 THEN q ELSE q + 1
    IN  Sign(n) * Sign(d) * m

\* segment_duration >= min_duration, segment_duration = frames / fps and
\* min_duration = md / 100  (fps # 0)
DurationAtLeast(frames, fps, md) ==
    IF fps > 0 THEN 100 * frames >= md * fps
               ELSE 100 * frames <= md * fps

\* ------------------------------------------------------- time formatting
RECURSIVE BitLength(_)
BitLength(n) == IF n <= 0 THEN 0 ELSE 1 + BitLength(n \div 2)

RECURSIVE Pow2(_)
Pow2(n) == IF n <= 0 THEN 1 ELSE 2 * Pow2(n - 1)

RECURSIVE Pow2Mod(_, _)
Pow2Mod(n, m) == IF n <= 0 THEN 1 % m ELSE (2 * Pow2Mod(n - 1, m)) % m

\* the least e >= from with r * 2^e >= den  (0 < r < den)
RECURSIVE LeastShift(_, _, _)
LeastShift(r, den, from) ==
    IF r * Pow2(from) >= den THEN from ELSE LeastShift(r, den, from + 1)

\* floor(log2(q + r / den)), the binary exponent of the double of
\* total_seconds = q + r / den  (q >= 1, or q = 0 and 0 < r < den)
BinaryExponent(q, r, den) ==
    IF q >= 1 THEN BitLength(q) - 1 ELSE 0 - LeastShift(r, den, 1)

\* int((total_seconds % 1) * 1000) for total_seconds = the double nearest to
\* num / den.  With num = q * den + r and 1000 * r = k * den + sigma:
\*  - sigma > 0: the product is further from a whole number than the
\*    rounding errors reach, and int() gives k;
\*  - sigma = 0: the exact product is the whole number k.  The double of
\*    num / den carries 52 - E binary places (E its binary exponent); with
\*    rho = r * 2^(52-E) mod den, it is exact when rho = 0 and rounded up
\*    when 2 * rho > den, and int() gives k; rounded down, total_seconds % 1
\*    (exact) times 1000 is k - 1000 * rho / (den * 2^(52-E)), which the
\*    multiplication rounds back to k only when that distance is at most
\*    half a unit in the last place below k, 2^(BitLength(k-1) - 54);
\*    otherwise int() gives k - 1.
FloatMilliseconds(num, den) ==
    LET q == num \div den
        r == num % den
        k == (1000 * r) \div den
        sigma == (1000 * r) % den
    IN  IF sigma # 0 \/ r = 0 THEN k
        ELSE LET E == BinaryExponent(q, r, den)
                 rho == (r * Pow2Mod(52 - E, den)) % den
                 g == 2 + E - BitLength(k - 1)
             IN  IF rho = 0 \/ 2 * rho > den THEN k
                 ELSE IF g >= 0
                 THEN IF Pow2(g) <= den /\ 1000 * rho * Pow2(g) <= den
                      THEN k ELSE k - 1
                 ELSE IF 1000 * rho <= den * Pow2(0 - g) THEN k ELSE k - 1

\* frame_to_time: the fields of the string "HH:MM:SS.mmm" ("MM:SS.mmm"
\* when hours = 0) as a sequence, for total_seconds = frame_number / fps.
\* The floor divisions by 3600, 60 and 1 of the double are those of the
\* exact quotient: a quotient that is not whole is at least 1 / fps away
\* from a whole number.
frame_to_time_hours_always(frame_number, fps) ==
    LET num == frame_number * Sign(fps)
        den == Abs(fps)
    IN  <<num \div (3600 * den), (num % (3600 * den)) \div (60 * den),
          (num % (60 * den)) \div den, FloatMilliseconds(num, den)>>

frame_to_time(frame_number, fps) ==
    LET num == frame_number * Sign(fps)
        den == Abs(fps)
        hours == num \div (3600 * den)
        minutes == (num % (3600 * den)) \div (60 * den)
        seconds == (num % (60 * den)) \div den
        milliseconds == FloatMilliseconds(num, den)
    IN  IF hours > 0
        THEN <<hours, minutes, seconds, milliseconds>>
        ELSE <<minutes, seconds, milliseconds>>

\* format_duration: the tier and the fields of "S.Ss", "Mm S.Ss",
\* "Hh Mm S.Ss" for duration_seconds = frames / fps; the seconds field is
\* kept in tenths as the format {:.1f} prints it.
format_duration(frames, fps) ==
    LET num == frames * Sign(fps)
        den == Abs(fps)
    IN  IF num < 60 * den
        THEN [tier |-> "s", h |-> 0, m |-> 0,
              tenths |-> RoundHalfEven(10 * num, den)]
        ELSE IF num < 3600 * den
        THEN [tier |-> "m", h |-> 0, m |-> num \div (60 * den),
              tenths |-> RoundHalfEven(10 * (num % (60 * den)), den)]
        ELSE [tier |-> "h", h |-> num \div (3600 * den),
              m |-> (num % (3600 * den)) \div (60 * den),
              tenths |-> RoundHalfEven(10 * (num % (60 * den)), den)]

\* ------------------------------------------------------------- segmenter
\* all(isinstance(x, bool) for x in copied_frames)
AllBool(copied_frames) ==
    \A i \in 1..Len(copied_frames) : copied_frames[i].isbool

\* [i for i, is_copied in enumerate(copied_frames) if is_copied]
TrueIndicesFromOne(copied_frames) ==
    LET positions == [i \in 1..Len(copied_frames) |-> i]
    IN  SelectSeq(positions, LAMBDA k : copied_frames[k].val # 0)

TrueIndices(copied_frames) ==
    LET positions == [i \in 1..Len(copied_frames) |-> i - 1]
    IN  SelectSeq(positions, LAMBDA k : copied_frames[k + 1].val # 0)

Values(copied_frames) == [i \in 1..Len(copied_frames) |-> copied_frames[i].val]

SeqRange(s) == {s[i] : i \in 1..Len(s)}

\* sorted(set(..))
RECURSIVE SortedSet(_)
SortedSet(S) ==
    IF S = {} THEN <<>>
    ELSE LET least == CHOOSE x \in S : \A y \in S : x <= y
         IN  <<least>> \o SortedSet(S \ {least})

\* the dict appended to timestamps
SegmentRecordTruncated(current_start, current_end, fps) ==
    [start_frame |-> current_start,
     end_frame |-> current_end,
     start |-> frame_to_time(current_start, fps),
     end |-> frame_to_time(current_end, fps),
     duration |-> format_duration(current_end - current_start + 1, fps),
     duration_seconds |-> (100 * (current_end - current_start + 1)) \div fps,
     frame_count |-> current_end - current_start + 1]

SegmentRecord(current_start, current_end, fps) ==
    [start_frame |-> current_start,
     end_frame |-> current_end,
     start |-> frame_to_time(current_start, fps),
     end |-> frame_to_time(current_end, fps),
     duration |-> format_duration(current_end - current_start + 1, fps),
     duration_seconds |-> RoundHalfEven(100 * (current_end - current_start + 1), fps),
     frame_count |-> current_end - current_start + 1]

\* lines 80-90, a segment closed by a gap: dividing by fps raises when
\* fps = 0; the segment is appended when its duration reaches min_duration
CloseSegment(timestamps, current_start, current_end, fps, min_duration) ==
    IF fps = 0 THEN Raised("ZeroDivisionError")
    ELSE IF DurationAtLeast(current_end - current_start + 1, fps, min_duration)
    THEN Returned(Append(timestamps, SegmentRecord(current_start, current_end, fps)))
    ELSE Returned(timestamps)

\* lines 94-104, the final segment: the same division and the same filter
FinalSegmentUnfiltered(timestamps, current_start, current_end, fps, min_duration) ==
    IF fps = 0 THEN Raised("ZeroDivisionError")
    ELSE Returned(Append(timestamps, SegmentRecord(current_start, current_end, fps)))

FinalSegment(timestamps, current_start, current_end, fps, min_duration) ==
    IF fps = 0 THEN Raised("ZeroDivisionError")
    ELSE IF DurationAtLeast(current_end - current_start + 1, fps, min_duration)
    THEN Returned(Append(timestamps, SegmentRecord(current_start, current_end, fps)))
    ELSE Returned(timestamps)

\* the loop over copied_frame_indices[1:] followed by the final segment
RECURSIVE GroupConsecutive(_, _, _, _, _, _, _)
GroupConsecutive(indices, k, timestamps, current_start, current_end, fps, min_duration) ==
    IF k > Len(indices)
    THEN FinalSegment(timestamps, current_start, current_end, fps, min_duration)
    ELSE IF indices[k] = current_end + 1
    THEN GroupConsecutive(indices, k + 1, timestamps, current_start, indices[k],
                          fps, min_duration)
    ELSE LET closed == CloseSegment(timestamps, current_start, current_end,
                                    fps, min_duration)
         IN  IF closed.error # "None" THEN closed
             ELSE GroupConsecutive(indices, k + 1, closed.value, indices[k],
                                   indices[k], fps, min_duration)

\* line 69: copied_frame_indices = sorted(set(copied_frame_indices))
AsGiven(copied_frame_indices) == copied_frame_indices

SortedDedup(copied_frame_indices) == SortedSet(SeqRange(copied_frame_indices))

generate_timestamps(copied_frames, fps, min_duration) ==
    IF Len(copied_frames) = 0 THEN Returned(<<>>)
    ELSE LET copied_frame_indices ==
                 IF AllBool(copied_frames) THEN TrueIndices(copied_frames)
                                           ELSE Values(copied_frames)
         IN  IF Len(copied_frame_indices) = 0 THEN Returned(<<>>)
             ELSE LET sorted == SortedDedup(copied_frame_indices)
                  IN  GroupConsecutive(sorted, 2, <<>>, sorted[1], sorted[1],
                                       fps, min_duration)

\* The caller's list after a call: the function rebinds its local name to a
\* new sorted list and never changes the list it was given.
SortedInPlace(copied_frames) ==
    IF AllBool(copied_frames) THEN copied_frames
    ELSE LET sorted == SortedSet(SeqRange(Values(copied_frames)))
         IN  [i \in 1..Len(sorted) |-> PyInt(sorted[i])]

ListAfterCall(copied_frames) == copied_frames

\* ------------------------------------------------------------ job store
\* FirebaseHandler: the collection youtube_videos is a set of documents
\* [id, status, error], processed_videos a set of result documents.

HasDoc(collection, id) == \E d \in collection : d.id = id
DocOf(collection, id) == CHOOSE d \in collection : d.id = id

RECURSIVE SortedById(_)
SortedById(docs) ==
    IF docs = {} THEN <<>>
    ELSE LET first == CHOOSE d \in docs : \A e \in docs : d.id <= e.id
         IN  <<first>> \o SortedById(docs \ {first})

\* get_pending_videos: streams the whole collection, with no filter on the
\* status; an error while streaming gives the empty list
get_pending_only(youtube, stream_ok) ==
    IF stream_ok
    THEN SortedById({[id |-> d.id, status |-> d.status] :
                        d \in {e \in youtube : e.status = "pending"}})
    ELSE <<>>

get_pending_videos(youtube, stream_ok) ==
    IF stream_ok THEN SortedById({[id |-> d.id, status |-> d.status] : d \in youtube})
                 ELSE <<>>

\* ref.update(..) raises on a missing document; the handler swallows it
mark_as_processing(youtube, id, write_ok) ==
    IF write_ok /\ HasDoc(youtube, id)
    THEN {IF d.id = id THEN [d EXCEPT !.status = "processing"] ELSE d : d \in youtube}
    ELSE youtube

mark_as_failed(youtube, id, error_message, write_ok) ==
    IF write_ok /\ HasDoc(youtube, id)
    THEN {IF d.id = id THEN [d EXCEPT !.status = "failed", !.error = error_message]
                       ELSE d : d \in youtube}
    ELSE youtube

\* save_results with the two writes sent one after the other: a failure of
\* the second leaves the first in place
save_results_unbatched(youtube, processed, id, results, write_ok) ==
    [youtube |-> IF write_ok THEN {d \in youtube : d.id # id} ELSE youtube,
     processed |-> {r \in processed : r.video_id # id} \cup {results},
     returned |-> write_ok]

\* save_results: one batch sets the result and deletes the source document;
\* the commit applies both or, when it (or a statement before it) raises,
\* neither, and the handler turns the exception into the value False
save_results(youtube, processed, id, results, write_ok) ==
    IF write_ok
    THEN [youtube |-> {d \in youtube : d.id # id},
          processed |-> {r \in processed : r.video_id # id} \cup {results},
          returned |-> TRUE]
    ELSE [youtube |-> youtube, processed |-> processed, returned |-> FALSE]

\* ---------------------------------------------------------- process_video
VideoFpsValues == {-1, 0, 2, 8}      \* what CAP_PROP_FPS may report
MinSimilarityPercent == 75           \* MIN_SIMILARITY_THRESHOLD * 100
DefaultMinDuration == 50             \* min_duration=0.5, in hundredths

Videos == 1..NumVideos

\* the statements of the try block, in program order; an exception in any of
\* them goes to the except clause, the last one falls through to finally
StepAfterSaveFirst(step) ==
    CASE step = "mark_processing" -> "download"
      [] step = "download" -> "video_info"
      [] step = "video_info" -> "extract"
      [] step = "extract" -> "compare"
      [] step = "compare" -> "results"
      [] step = "results" -> "save"
      [] step = "save" -> "timeline"
      [] step = "timeline" -> "cleanup"

StepAfter(step) ==
    CASE step = "mark_processing" -> "download"
      [] step = "download" -> "video_info"
      [] step = "video_info" -> "extract"
      [] step = "extract" -> "compare"
      [] step = "compare" -> "results"
      [] step = "results" -> "timeline"
      [] step = "timeline" -> "save"
      [] step = "save" -> "cleanup"

AsFlags(copied_frames) == [i \in 1..Len(copied_frames) |-> PyBool(copied_frames[i])]

\* sum(copied_frames)
Count(copied_frames) == Cardinality({i \in 1..Len(copied_frames) : copied_frames[i]})

\* ts['start'].split('.')[0]: the time without its milliseconds
WithoutMillis(time) == SubSeq(time, 1, Len(time) - 1)

RECURSIVE SumDurations(_)
SumDurations(timestamps) ==
    IF timestamps = <<>> THEN 0
    ELSE timestamps[1].duration_seconds + SumDurations(Tail(timestamps))

\* copy_percent >= MIN_SIMILARITY_THRESHOLD * 100, with copy_percent =
\* matched / frames * 100 (0 for no frames) kept as the exact fraction
Copied(matched, frames) == frames > 0 /\ 100 * matched >= MinSimilarityPercent * frames

\* round(copy_percent, 2), in hundredths of a percent
CopyPercentage(matched, frames) ==
    IF frames > 0 THEN RoundHalfEven(10000 * matched, frames) ELSE 0

\* the document handed to save_results
ResultDocumentFirstSegment(id, copied_frames, frames, timestamps) ==
    [video_id |-> id,
     status |-> "completed",
     copied |-> (frames > 0 /\ 100 * Count(copied_frames) >= MinSimilarityPercent * frames),
     copy_percentage |-> IF frames > 0 THEN RoundHalfEven(10000 * Count(copied_frames), frames)
                                       ELSE 0,
     timestamps |-> [k \in 1..(IF Len(timestamps) > 0 THEN 1 ELSE 0) |->
                        [start |-> WithoutMillis(timestamps[k].start),
                         end |-> WithoutMillis(timestamps[k].end)]],
     total_segments |-> Len(timestamps),
     total_copied_duration |-> SumDurations(timestamps)]

ResultDocumentPercentageCutOff(id, copied_frames, frames, timestamps) ==
    [video_id |-> id,
     status |-> "completed",
     copied |-> (frames > 0 /\ 100 * Count(copied_frames) >= MinSimilarityPercent * frames),
     copy_percentage |-> IF frames > 0 THEN (10000 * Count(copied_frames)) \div frames
                                       ELSE 0,
     timestamps |-> [k \in 1..Len(timestamps) |->
                        [start |-> WithoutMillis(timestamps[k].start),
                         end |-> WithoutMillis(timestamps[k].end)]],
     total_segments |-> Len(timestamps),
     total_copied_duration |-> SumDurations(timestamps)]

ResultDocument(id, copied_frames, frames, timestamps) ==
    [video_id |-> id,
     status |-> "completed",
     copied |-> Copied(Count(copied_frames), frames),
     copy_percentage |-> CopyPercentage(Count(copied_frames), frames),
     timestamps |-> [k \in 1..Len(timestamps) |->
                        [start |-> WithoutMillis(timestamps[k].start),
                         end |-> WithoutMillis(timestamps[k].end)]],
     total_segments |-> Len(timestamps),
     total_copied_duration |-> SumDurations(timestamps)]

\* compare_frames: one flag per frame handed in, in the same order; the flag
\* of a frame is what the detector and the reference corpus make of it
compare_frames(target_frames, frame_flags) == SubSeq(frame_flags, 1, target_frames)

\* what a video is: the fps its file reports and, per frame, whether the
\* frame matches the reference
Contents ==
    {[fps |-> f, flags |-> fl] :
        f \in VideoFpsValues, fl \in UNION {[1..n -> BOOLEAN] : n \in 1..MaxFrames}}
PlainContent == [fps |-> 2, flags |-> <<TRUE>>]

\* ------------------------------------------------------------------ state
VARIABLES
    arg_copied_frames,   \* the caller's list handed to generate_timestamps
    arg_fps,
    arg_min_duration,
    given,               \* the list as it was before the first call
    returned,            \* what the successive calls gave back
    youtube_videos,      \* collection youtube_videos
    processed_videos,    \* collection processed_videos
    pc,                  \* where main / process_video stands
    pending_videos,      \* the list of the last poll
    position,            \* index in pending_videos of the video in the for loop
    video_id,            \* locals of process_video
    video_path,
    fps,
    target_frames,
    copied_frames,
    timestamps,
    exc,                 \* the exception caught by the except clause
    interrupted,         \* a KeyboardInterrupt is propagating
    run,                 \* what the current run of process_video did
    catalog,             \* per video id, the content of the video behind it
    reference_data,      \* main's reference corpus
    files,               \* what the current run of process_video has on disk
    call,                \* the arguments of a call of one of the other functions
    answer               \* what that call gave back

segvars == <<arg_copied_frames, arg_fps, arg_min_duration, given, returned>>
storevars == <<youtube_videos, processed_videos>>
loopvars == <<pending_videos, position>>
localvars == <<video_id, video_path, fps, target_frames, copied_frames, timestamps, exc>>
workervars ==
    <<storevars, pc, loopvars, localvars, interrupted, run, catalog, reference_data, files>>
callvars == <<call, answer>>
vars == <<segvars, workervars, callvars>>

FlagArrays == UNION {[1..n -> BoolItems] : n \in 0..MaxFlags}
IndexLists == UNION {[1..n -> BoolItems \cup IntItems] : n \in 1..MaxIndices}

NoRun == [raised |-> "None", mark_failed |-> "None", mark_failed_ok |-> FALSE,
          saved |-> FALSE, interrupted_at |-> "None"]

\* the downloaded video file and the number of frame files
NoFiles == [video |-> FALSE, frames |-> 0]

NoCall == [fn |-> "None"]

CallIdle ==
    /\ call = NoCall
    /\ answer = NoCall

SegmenterIdle ==
    /\ arg_copied_frames = <<>>
    /\ arg_fps = 1
    /\ arg_min_duration = 0
    /\ given = <<>>
    /\ returned = <<>>

\* main before the reference data is loaded: the documents of queued are
\* waiting to be processed
WorkerStart(queued) ==
    /\ youtube_videos = {[id |-> v, status |-> "pending", error |-> "None"] : v \in queued}
    /\ processed_videos = {}
    /\ pc = "load_reference"
    /\ reference_data = <<>>
    /\ files = NoFiles
    /\ pending_videos = <<>>
    /\ position = 0
    /\ video_id = 0
    /\ video_path = "None"
    /\ fps = 0
    /\ target_frames = 0
    /\ copied_frames = <<>>
    /\ timestamps = <<>>
    /\ exc = "None"
    /\ interrupted = FALSE
    /\ run = NoRun

\* ------------------------------------------------------------- segmenter
SegInit ==
    /\ arg_copied_frames \in FlagArrays \cup IndexLists
    /\ arg_fps \in FpsValues
    /\ arg_min_duration \in MinDurationValues
    /\ given = arg_copied_frames
    /\ returned = <<>>
    /\ WorkerStart(Videos)
    /\ catalog = [v \in Videos |-> PlainContent]
    /\ CallIdle

CallSegmenter ==
    /\ Len(returned) < MaxCalls
    /\ returned' = Append(returned,
                          generate_timestamps(arg_copied_frames, arg_fps, arg_min_duration))
    /\ arg_copied_frames' = ListAfterCall(arg_copied_frames)
    /\ UNCHANGED <<arg_fps, arg_min_duration, given>>
    /\ UNCHANGED <<workervars, callvars>>

SpecSeg == SegInit /\ [][CallSegmenter]_vars

\* ------------------------------------------------------ time formatting
\* frame numbers and frame counts that are formatted: the small ones, and
\* some around a minute and an hour
NotableFrameNumbers == {90, 599, 1499, 2999, 89999, 107999, 108000, 108023}
FormatFpsValues == {1, 3, 8, 10, 25, 30}

FormatInit ==
    /\ SegmenterIdle
    /\ WorkerStart(Videos)
    /\ catalog = [v \in Videos |-> PlainContent]
    /\ call \in {[fn |-> "format", frame_number |-> f, fps |-> p] :
                     f \in ((0..MaxFrameNumber) \cup NotableFrameNumbers), p \in FormatFpsValues}
    /\ answer = [time |-> <<>>, duration |-> [tier |-> "None"]]

\* frame_to_time(frame_number, fps)
CallFrameToTime ==
    /\ call.fn = "format"
    /\ answer.time = <<>>
    /\ answer' = [answer EXCEPT !.time = frame_to_time(call.frame_number, call.fps)]
    /\ UNCHANGED <<segvars, workervars, call>>

\* format_duration(segment_duration) for a segment of frame_number frames
CallFormatDuration ==
    /\ call.fn = "format"
    /\ answer.duration.tier = "None"
    /\ answer' = [answer EXCEPT !.duration = format_duration(call.frame_number, call.fps)]
    /\ UNCHANGED <<segvars, workervars, call>>

FormatNext ==
    \/ CallFrameToTime
    \/ CallFormatDuration

SpecFormat == FormatInit /\ [][FormatNext]_vars

\* ------------------------------------------------------------- job store
\* save_results applied to a store: any documents of the videos in
\* youtube_videos, any earlier results in processed_videos
StoredDocuments ==
    {docs \in SUBSET {[id |-> v, status |-> s, error |-> "None"] :
                         v \in Videos, s \in {"pending", "processing", "failed"}} :
        \A d, e \in docs : d.id = e.id => d = e}
NewResult(id, flags) == ResultDocument(id, flags, Len(flags), <<>>)
StoreInit ==
    /\ SegmenterIdle
    /\ WorkerStart(Videos)
    /\ catalog = [v \in Videos |-> PlainContent]
    /\ answer = NoCall
    /\ call \in {[fn |-> "save_results", youtube |-> y, processed |-> p, video_id |-> v,
                  results |-> NewResult(v, f), write_ok |-> w] :
                    y \in StoredDocuments,
                    p \in SUBSET {NewResult(w, <<FALSE>>) : w \in Videos}, v \in Videos,
                    f \in {<<TRUE>>, <<FALSE>>}, w \in BOOLEAN}

CallSaveResults ==
    /\ call.fn = "save_results"
    /\ answer = NoCall
    /\ answer' = save_results(call.youtube, call.processed, call.video_id, call.results,
                              call.write_ok)
    /\ UNCHANGED <<segvars, workervars, call>>

SpecStore == StoreInit /\ [][CallSaveResults]_vars

\* --------------------------------------------------------------- verdict
\* the two fields process_video computes from the flags: every count of
\* matched frames for the short videos, and some longer videos around the
\* threshold
VerdictInputs ==
    {<<m, n>> \in (0..MaxVerdictFrames) \X (1..MaxVerdictFrames) : m <= n}
        \cup {<<3, 4>>, <<299, 400>>, <<3750, 5000>>, <<3752, 5003>>, <<3753, 5003>>,
              <<3755, 5007>>}

VerdictInit ==
    /\ SegmenterIdle
    /\ WorkerStart(Videos)
    /\ catalog = [v \in Videos |-> PlainContent]
    /\ answer = NoCall
    /\ call \in {[fn |-> "verdict", matched |-> i[1], frames |-> i[2]] : i \in VerdictInputs}

CallVerdict ==
    /\ call.fn = "verdict"
    /\ answer = NoCall
    /\ answer' = [copied |-> Copied(call.matched, call.frames),
                  copy_percentage |-> CopyPercentage(call.matched, call.frames)]
    /\ UNCHANGED <<segvars, workervars, call>>

SpecVerdict == VerdictInit /\ [][CallVerdict]_vars

\* ------------------------------------------------------ frame extraction
\* A video file as the extraction sees it: whether it can be opened, the
\* frame count its metadata reports, and per frame that cap.read() delivers
\* what becomes of it: "written" (resized and saved), "not_written"
\* (cv2.imwrite returns False) or "error" (resizing or saving raises).
\* A path of the returned list is kept as the number in its file name and
\* the source frame whose image it holds.
FrameOutcomes == {"written", "not_written", "error"}
Extracted(frames) == [kind |-> "list", frames |-> frames]
ExtractedNone == [kind |-> "None", frames |-> <<>>]
ExtractionRaised(e) == [kind |-> e, frames |-> <<>>]
ExtractionHangs == [kind |-> "hangs", frames |-> <<>>]

\* extract_frames_cpu, the loop of lines 338-356
RECURSIVE CpuLoop(_, _, _, _, _)
CpuLoop(film, frame_interval, frame_count, frame_paths, saved_count) ==
    IF frame_count >= Len(film) THEN Extracted(frame_paths)
    ELSE IF frame_count % frame_interval # 0
    THEN CpuLoop(film, frame_interval, frame_count + 1, frame_paths, saved_count)
    ELSE IF film[frame_count + 1] = "error" THEN ExtractionRaised("cv2.error")
    ELSE IF film[frame_count + 1] = "written"
    THEN CpuLoop(film, frame_interval, frame_count + 1,
                 Append(frame_paths, [name |-> saved_count, source |-> frame_count]),
                 saved_count + 1)
    ELSE CpuLoop(film, frame_interval, frame_count + 1, frame_paths, saved_count)

extract_frames_cpu(video, frame_interval) ==
    IF ~video.opens THEN ExtractionRaised("ValueError")
    ELSE CpuLoop(video.film, frame_interval, 0, <<>>, 0)

\* extract_frames_gpu, the loops of lines 108-173: frames are read until
\* total_frames of them have been processed; a read that fails leaves the
\* inner loop only, and the outer loop then reads again without end.  The
\* batches of 100 group the same reads.  The value of cv2.imwrite is not
\* looked at; an exception while a frame is handled is logged.
RECURSIVE GpuLoop(_, _, _, _, _)
GpuLoop(film, frame_interval, total_frames, frame_count, frames) ==
    IF frame_count >= total_frames THEN Extracted(frames)
    ELSE IF frame_count >= Len(film) THEN ExtractionHangs
    ELSE IF frame_count % frame_interval = 0 /\ film[frame_count + 1] # "error"
    THEN GpuLoop(film, frame_interval, total_frames, frame_count + 1,
                 Append(frames, [name |-> frame_count, source |-> frame_count]))
    ELSE GpuLoop(film, frame_interval, total_frames, frame_count + 1, frames)

extract_frames_gpu(video, frame_interval) ==
    IF ~video.opens THEN ExtractedNone
    ELSE GpuLoop(video.film, frame_interval, video.total_frames, 0, <<>>)

\* extract_frames: the GPU version when its module can be imported, the CPU
\* version when the import (or the call) raises
extract_frames(video, frame_interval, import_ok) ==
    IF import_ok THEN extract_frames_gpu(video, frame_interval)
                 ELSE extract_frames_cpu(video, frame_interval)

VideoFiles ==
    {[opens |-> o, film |-> f, total_frames |-> t] :
        o \in BOOLEAN, f \in UNION {[1..n -> FrameOutcomes] : n \in 0..MaxSourceFrames},
        t \in 0..(MaxSourceFrames + 1)}
ExtractInit ==
    /\ SegmenterIdle
    /\ WorkerStart(Videos)
    /\ catalog = [v \in Videos |-> PlainContent]
    /\ answer = NoCall
    /\ call \in {[fn |-> "extract_frames", video |-> v, frame_interval |-> i,
                  import_ok |-> g] :
                    v \in {w \in VideoFiles : Abs(w.total_frames - Len(w.film)) <= 1},
                    i \in {1, 2}, g \in BOOLEAN}

CallExtractFrames ==
    /\ call.fn = "extract_frames"
    /\ answer = NoCall
    /\ answer' = extract_frames(call.video, call.frame_interval, call.import_ok)
    /\ UNCHANGED <<segvars, workervars, call>>

SpecExtract == ExtractInit /\ [][CallExtractFrames]_vars

\* ---------------------------------------------------------------- detector
\* YOLODetector as main constructs it: conf_threshold = 0.5 (in hundredths),
\* self.classes the names of the model.  An image is what the back-end makes
\* of it: "ok" with the raw output of the network, "bad_input" (inference
\* raises) or "bad_result" (reading the output raises).
ConfThreshold == 50
Classes == <<"person", "car">>

\* self.classes[cls_id] if cls_id < len(self.classes) else "unknown"
ClassName(cls_id) == IF cls_id < Len(Classes) THEN Classes[cls_id + 1] ELSE "unknown"

\* int(n / 2): int() drops the fraction, towards zero
TruncHalf(n) == IF n >= 0 THEN n \div 2 ELSE 0 - ((0 - n) \div 2)

RECURSIVE Empties(_)
Empties(n) == IF n <= 0 THEN <<>> ELSE << <<>> >> \o Empties(n - 1)

\* _detect_ultralytics, lines 370-384: a box of pred.boxes has conf, cls and
\* the corners xyxy (here in half pixels); the record holds x, y, w, h
UltralyticsRecordCorners(box) ==
    [class |-> ClassName(box.cls),
     confidence |-> box.conf,
     box |-> <<TruncHalf(box.x), TruncHalf(box.y), TruncHalf(box.x2), TruncHalf(box.y2)>>]

UltralyticsRecord(box) ==
    [class |-> ClassName(box.cls),
     confidence |-> box.conf,
     box |-> <<TruncHalf(box.x), TruncHalf(box.y),
               TruncHalf(box.x2 - box.x), TruncHalf(box.y2 - box.y)>>]

UltralyticsDetections(boxes) ==
    LET kept == SelectSeq(boxes, LAMBDA b : b.conf > ConfThreshold)
    IN  [i \in 1..Len(kept) |-> UltralyticsRecord(kept[i])]

\* lines 367-386 for the preds of one batch: the detections of each pred are
\* appended in turn until reading one raises
RECURSIVE ProcessPreds(_, _)
ProcessPreds(batch, results) ==
    IF batch = <<>> THEN [raised |-> FALSE, results |-> results]
    ELSE IF Head(batch).kind = "bad_result" THEN [raised |-> TRUE, results |-> results]
    ELSE ProcessPreds(Tail(batch),
                      Append(results, UltralyticsDetections(Head(batch).raw)))

\* lines 359-396: one batch; an exception of the inference or of the
\* reading of its output adds an empty list per image of the batch to what
\* results holds by then
RECURSIVE UltralyticsBatches(_, _, _, _)
UltralyticsBatches(images, batch_size, i, results) ==
    IF i >= Len(images) THEN results
    ELSE LET last == IF i + batch_size <= Len(images) THEN i + batch_size ELSE Len(images)
             batch == SubSeq(images, i + 1, last)
             done == IF \E k \in 1..Len(batch) : batch[k].kind = "bad_input"
                     THEN [raised |-> TRUE, results |-> results]
                     ELSE ProcessPreds(batch, results)
         IN  UltralyticsBatches(images, batch_size, i + batch_size,
                 IF done.raised THEN done.results \o Empties(Len(batch))
                                ELSE done.results)

\* batch_size = min(4, len(images)); range(0, 0, 0) raises ValueError
detect_ultralytics(images) ==
    IF Len(images) = 0 THEN Raised("ValueError")
    ELSE Returned(UltralyticsBatches(images, Min2(4, Len(images)), 0, <<>>))

\* _process_opencv_detections: a row of the output has the centre and the
\* size of the box as fractions of the image (here in quarters) and one
\* score per class
RECURSIVE ArgMax(_, _, _)
ArgMax(scores, k, best) ==
    IF k > Len(scores) THEN best - 1
    ELSE ArgMax(scores, k + 1, IF scores[k] > scores[best] THEN k ELSE best)

ImageHeight == 4
ImageWidth == 6

OpenCVRecord(obj) ==
    LET class_id == ArgMax(obj.scores, 1, 1)
        center_x == (obj.cx * ImageWidth) \div 4
        center_y == (obj.cy * ImageHeight) \div 4
        w == (obj.w * ImageWidth) \div 4
        h == (obj.h * ImageHeight) \div 4
    IN  [class |-> ClassName(class_id),
         confidence |-> obj.scores[class_id + 1],
         box |-> <<TruncHalf(2 * center_x - w), TruncHalf(2 * center_y - h), w, h>>]

\* sorted by descending confidence (the order of NMSBoxes and of the sort
\* of line 486)
RECURSIVE ByConfidence(_)
ByConfidence(results) ==
    IF results = <<>> THEN <<>>
    ELSE LET k == CHOOSE i \in 1..Len(results) :
                     /\ \A j \in 1..Len(results) :
                           results[j].confidence <= results[i].confidence
                     /\ \A j \in 1..(i - 1) :
                           results[j].confidence < results[i].confidence
         IN  <<results[k]>> \o
             ByConfidence(SubSeq(results, 1, k - 1) \o SubSeq(results, k + 1, Len(results)))

\* lines 437-489; nms is what cv2.dnn.NMSBoxes does with the boxes: it keeps
\* "all", only the "best", or "raises"
process_opencv_detections(rows, nms) ==
    LET kept == SelectSeq(rows, LAMBDA obj :
                     obj.scores[ArgMax(obj.scores, 1, 1) + 1] > ConfThreshold)
        results == [i \in 1..Len(kept) |-> OpenCVRecord(kept[i])]
    IN  IF results = <<>> THEN <<>>
        ELSE IF nms = "raises" THEN SubSeq(ByConfidence(results), 1, Min2(10, Len(results)))
        ELSE IF nms = "best" THEN <<ByConfidence(results)[1]>>
        ELSE ByConfidence(results)

\* _detect_opencv with _process_single_image_opencv: a failure on an image
\* gives the empty list for that image
detect_opencv(images, nms) ==
    Returned([i \in 1..Len(images) |->
                 IF images[i].kind = "ok" THEN process_opencv_detections(images[i].raw, nms)
                                          ELSE <<>>])

Attempt(images, using_ultralytics, nms) ==
    IF using_ultralytics THEN detect_ultralytics(images) ELSE detect_opencv(images, nms)

\* detect, lines 327-350: an image that is not in a list is put in one; an
\* exception of the first attempt leads to a second one, and an exception of
\* that to one empty list per image
detect_once(images, using_ultralytics, nms) ==
    Attempt(images.items, using_ultralytics, nms)

detect(images, using_ultralytics, nms) ==
    LET first == Attempt(images.items, using_ultralytics, nms)
        retry == Attempt(images.items, using_ultralytics, nms)
    IN  IF first.error = "None" THEN first
        ELSE IF retry.error = "None" THEN retry
        ELSE Returned(Empties(Len(images.items)))

AsList(items) == [is_list |-> TRUE, items |-> items]
SingleImage(image) == [is_list |-> FALSE, items |-> <<image>>]

UltralyticsBox(c, k, x, x2) ==
    [conf |-> c, cls |-> k, x |-> x, y |-> 2, x2 |-> x2, y2 |-> 7]
UltralyticsBoxes == {UltralyticsBox(90, 1, 3, 8), UltralyticsBox(50, 0, 0, 4),
                     UltralyticsBox(60, 7, 1, 2)}
OpenCVRow(cx, w, scores) == [cx |-> cx, cy |-> 2, w |-> w, h |-> 1, scores |-> scores]
OpenCVRows == {OpenCVRow(1, 3, <<10, 90>>), OpenCVRow(2, 2, <<50, 20>>),
               OpenCVRow(3, 1, <<60, 60, 70>>)}

OkImage(raw) == [kind |-> "ok", raw |-> raw]
BadImages == {[kind |-> "bad_input", raw |-> <<>>], [kind |-> "bad_result", raw |-> <<>>]}
ImageLists(images) ==
    {AsList(items) : items \in UNION {[1..n -> images] : n \in 0..MaxImages}}
        \cup {SingleImage(image) : image \in images}

DetectInit ==
    /\ SegmenterIdle
    /\ WorkerStart(Videos)
    /\ catalog = [v \in Videos |-> PlainContent]
    /\ answer = NoCall
    /\ \/ call \in {[fn |-> "detect", images |-> i, using_ultralytics |-> TRUE,
                      nms |-> "all"] :
              i \in ImageLists({OkImage(raw) :
                                    raw \in UNION {[1..n -> UltralyticsBoxes] : n \in 0..2}}
                                \cup BadImages)}
       \/ call \in {[fn |-> "detect", images |-> i, using_ultralytics |-> FALSE,
                      nms |-> n] :
              i \in ImageLists({OkImage(raw) :
                                    raw \in UNION {[1..n -> OpenCVRows] : n \in 0..2}}
                                \cup BadImages),
                                   n \in {"all", "best", "raises"}}

CallDetect ==
    /\ call.fn = "detect"
    /\ answer = NoCall
    /\ answer' = detect(call.images, call.using_ultralytics, call.nms)
    /\ UNCHANGED <<segvars, workervars, call>>

SpecDetect == DetectInit /\ [][CallDetect]_vars

\* ------------------------------------------------------- reference corpus
\* load_reference_data.  What extract_frames gave for the reference video is
\* a list of frame paths (or None, an exception, or no return at all); a
\* frame path is kept as the source frame it was taken from and the image
\* cv2.imread gives for it: Unreadable (None), or an image as the detector
\* sees it.
BATCH_SIZE == 8
FRAME_EXTRACTION_INTERVAL == 1

Unreadable == [kind |-> "None", raw |-> <<>>]
NeverReturns == [error |-> "hangs", value |-> <<>>]

\* lines 276-283 with nothing skipped
LoadBatchImagesKeepingUnreadable(batch_frames) ==
    [i \in 1..Len(batch_frames) |-> batch_frames[i].image]

\* lines 276-283: the images of the batch that could be read
LoadBatchImages(batch_frames) ==
    LET readable == SelectSeq(batch_frames, LAMBDA f : f.image # Unreadable)
    IN  [i \in 1..Len(readable) |-> readable[i].image]

\* lines 272-296, the loop over range(0, len(ref_frames), BATCH_SIZE).  The
\* handler of line 295 is never entered: detect does not raise.
RECURSIVE LoadBatches(_, _, _, _, _)
LoadBatches(ref_frames, batch_start, results, using_ultralytics, nms) ==
    IF batch_start >= Len(ref_frames) THEN results
    ELSE LET batch_frames == SubSeq(ref_frames, batch_start + 1,
                                    Min2(batch_start + BATCH_SIZE, Len(ref_frames)))
             batch_images == LoadBatchImages(batch_frames)
             batch_detections == detect(AsList(batch_images), using_ultralytics, nms)
         IN  LoadBatches(ref_frames, batch_start + BATCH_SIZE,
                         IF batch_images # <<>> THEN results \o batch_detections.value
                                                ELSE results,
                         using_ultralytics, nms)

\* lines 247-307: every exception, the two ValueErrors of lines 264 and 299
\* included, ends in the empty list
load_reference_data(exists, extracted, using_ultralytics, nms) ==
    IF ~exists THEN Returned(<<>>)
    ELSE IF extracted = ExtractionHangs THEN NeverReturns
    ELSE IF extracted.kind # "list" \/ extracted.frames = <<>> THEN Returned(<<>>)
    ELSE Returned(LoadBatches(extracted.frames, 0, <<>>, using_ultralytics, nms))

\* The image of source frame s carries s in the confidence of its one object.
FrameConfidence(s) == ConfThreshold + 1 + s
FrameImage(s, using_ultralytics) ==
    IF using_ultralytics THEN OkImage(<<UltralyticsBox(FrameConfidence(s), 1, 3, 8)>>)
                         ELSE OkImage(<<OpenCVRow(1, 3, <<10, FrameConfidence(s)>>)>>)
FrameFaults == {Unreadable} \cup BadImages

\* n frame paths, sampled every FRAME_EXTRACTION_INTERVAL frames, of which
\* those at positions p1 and p2 (if any) have the images k1 and k2
ReferenceFrames(n, p1, k1, p2, k2, using_ultralytics) ==
    [i \in 1..n |->
        [source |-> (i - 1) * FRAME_EXTRACTION_INTERVAL,
         image |-> IF i = p1 THEN k1
                   ELSE IF i = p2 THEN k2
                   ELSE FrameImage((i - 1) * FRAME_EXTRACTION_INTERVAL, using_ultralytics)]]

LoadInit ==
    /\ SegmenterIdle
    /\ WorkerStart(Videos)
    /\ catalog = [v \in Videos |-> PlainContent]
    /\ answer = NoCall
    /\ \E u \in BOOLEAN :
          \/ \E n \in 0..MaxRefFrames, p1 \in 0..MaxRefFrames, p2 \in 0..MaxRefFrames,
                k1 \in FrameFaults, k2 \in FrameFaults :
                call = [fn |-> "load_reference_data", exists |-> TRUE,
                        extracted |-> Extracted(ReferenceFrames(n, p1, k1, p2, k2, u)),
                        using_ultralytics |-> u, nms |-> "all"]
          \/ \E e \in {ExtractedNone, ExtractionHangs, ExtractionRaised("ValueError"),
                       ExtractionRaised("cv2.error")}, x \in BOOLEAN :
                call = [fn |-> "load_reference_data", exists |-> x, extracted |-> e,
                        using_ultralytics |-> u, nms |-> "all"]

CallLoadReferenceData ==
    /\ call.fn = "load_reference_data"
    /\ answer = NoCall
    /\ answer' = load_reference_data(call.exists, call.extracted,
                                     call.using_ultralytics, call.nms)
    /\ UNCHANGED <<segvars, workervars, call>>

SpecLoad == LoadInit /\ [][CallLoadReferenceData]_vars

\* ------------------------------------------- similarity and frame matcher
\* The worker imports compare_frames from src.processing.compare_results,
\* which does not define it; the similarity of two detection sets and the
\* frame matcher are taken from the design (spec 4.1, steps 1-5, and 4.2).
\* A detection is a record with the fields label and confidence, either of
\* which may be missing; confidences and scores are in hundredths.
WeightThreshold == 30

LabelOf(detection) ==
    IF "label" \in DOMAIN detection THEN detection.label ELSE "unknown"

ConfidenceOf(detection) ==
    IF "confidence" \in DOMAIN detection THEN detection.confidence ELSE 0

Max(S) == CHOOSE x \in S : \A y \in S : y <= x

\* step 1: per label, the highest confidence of the detections at or above
\* the floor
WeightMap(detections) ==
    LET kept == {i \in 1..Len(detections) :
                    ConfidenceOf(detections[i]) >= WeightThreshold}
    IN  [l \in {LabelOf(detections[i]) : i \in kept} |->
            Max({ConfidenceOf(detections[i]) : i \in {j \in kept : LabelOf(detections[j]) = l}})]

RECURSIVE SumOver(_, _)
SumOver(weights, labels) ==
    IF labels = {} THEN 0
    ELSE LET l == CHOOSE x \in labels : TRUE
         IN  weights[l] + SumOver(weights, labels \ {l})

\* step 3: over the labels of both maps, the smaller of the two weights
IntersectionScoreOfCandidate(reference_weights, candidate_weights) ==
    SumOver(candidate_weights, DOMAIN reference_weights \cap DOMAIN candidate_weights)

IntersectionScore(reference_weights, candidate_weights) ==
    LET shared == DOMAIN reference_weights \cap DOMAIN candidate_weights
    IN  SumOver([l \in shared |-> Min2(reference_weights[l], candidate_weights[l])], shared)

\* step 4: the sum of the reference weights
UnionScore(reference_weights) == SumOver(reference_weights, DOMAIN reference_weights)

\* steps 2 and 5: the score as the fraction num / den
similarity(reference, candidate) ==
    LET reference_weights == WeightMap(reference)
        candidate_weights == WeightMap(candidate)
    IN  IF DOMAIN reference_weights = {} \/ DOMAIN candidate_weights = {}
        THEN [num |-> 0, den |-> 1]
        ELSE IF UnionScore(reference_weights) = 0 THEN [num |-> 0, den |-> 1]
        ELSE [num |-> IntersectionScore(reference_weights, candidate_weights),
              den |-> UnionScore(reference_weights)]

\* 4.2: the flag of one candidate frame is whether its best similarity to an
\* entry of the corpus reaches the threshold; a frame whose detection failed
\* is unmatched
Detected(detections) == [detected |-> TRUE, detections |-> detections]
FailedFrame == [detected |-> FALSE, detections |-> <<>>]

MatchFlag(candidate, reference, threshold) ==
    /\ candidate.detected
    /\ \E k \in 1..Len(reference) :
          LET score == similarity(reference[k], candidate.detections)
          IN  100 * score.num >= threshold * score.den

match_frames_dropping_failed(candidate_frames, reference, threshold) ==
    LET detected == SelectSeq(candidate_frames, LAMBDA c : c.detected)
    IN  [i \in 1..Len(detected) |-> MatchFlag(detected[i], reference, threshold)]

match_frames(candidate_frames, reference, threshold) ==
    [i \in 1..Len(candidate_frames) |-> MatchFlag(candidate_frames[i], reference, threshold)]

Car(c) == [label |-> "car", confidence |-> c]
Detections ==
    {Car(90), Car(50), Car(20), Car(0), [label |-> "dog", confidence |-> 90],
     [confidence |-> 90], [label |-> "car"]}
DetectionSets == UNION {[1..n -> Detections] : n \in 0..MaxDetections}
MatcherSets ==
    {<<>>, <<Car(90)>>, <<Car(20)>>, <<Car(50), [label |-> "dog", confidence |-> 90]>>}
MatchInit ==
    /\ SegmenterIdle
    /\ WorkerStart(Videos)
    /\ catalog = [v \in Videos |-> PlainContent]
    /\ answer = NoCall
    /\ \/ call \in {[fn |-> "similarity", reference |-> r, candidate |-> c] :
                        r \in DetectionSets, c \in DetectionSets}
       \/ call \in {[fn |-> "match_frames", candidate_frames |-> c, reference |-> r,
                      threshold |-> t] :
                        c \in UNION {[1..n -> {Detected(d) : d \in MatcherSets} \cup {FailedFrame}] :
                                      n \in 0..MaxCandidates},
                        r \in UNION {[1..n -> MatcherSets] : n \in 0..MaxReference},
                        t \in {50, 75}}

CallSimilarity ==
    /\ call.fn = "similarity"
    /\ answer = NoCall
    /\ answer' = [fn |-> "similarity", score |-> similarity(call.reference, call.candidate)]
    /\ UNCHANGED <<segvars, workervars, call>>

CallMatchFrames ==
    /\ call.fn = "match_frames"
    /\ answer = NoCall
    /\ answer' = [fn |-> "match_frames",
                  flags |-> match_frames(call.candidate_frames, call.reference, call.threshold)]
    /\ UNCHANGED <<segvars, workervars, call>>

MatchNext ==
    \/ CallSimilarity
    \/ CallMatchFrames

SpecMatch == MatchInit /\ [][MatchNext]_vars

\* ---------------------------------------------------------------- worker
\* one queued video, of any content
Init ==
    /\ SegmenterIdle
    /\ WorkerStart({1})
    /\ \E c \in Contents :
         catalog = [v \in Videos |-> IF v = 1 THEN c ELSE PlainContent]
    /\ CallIdle

\* a queue of NumVideos videos of plain content
BatchInit ==
    /\ SegmenterIdle
    /\ WorkerStart(Videos)
    /\ catalog = [v \in Videos |-> PlainContent]
    /\ CallIdle

InTry == pc \in {"mark_processing", "download", "video_info", "extract",
                 "compare", "results", "timeline", "save"}
InRun == InTry \/ pc \in {"failed", "cleanup"}

\* process_video is entered for pending_videos[k]: video_id from the
\* document, video_path = None, target_frames = []
Enter(k) ==
    /\ position' = k
    /\ video_id' = pending_videos'[k].id
    /\ video_path' = "None"
    /\ target_frames' = 0
    /\ fps' = 0
    /\ copied_frames' = <<>>
    /\ timestamps' = <<>>
    /\ exc' = "None"
    /\ run' = NoRun
    /\ pc' = "mark_processing"

\* process_video has returned: its locals are gone
Return ==
    /\ video_id' = 0
    /\ video_path' = "None"
    /\ target_frames' = 0
    /\ fps' = 0
    /\ copied_frames' = <<>>
    /\ timestamps' = <<>>
    /\ exc' = "None"
    /\ run' = NoRun

\* an exception of the try block: control goes to the except clause
Raise(step, message) ==
    /\ exc' = message
    /\ run' = [run EXCEPT !.raised = message]
    /\ pc' = "failed"

\* what load_reference_data can give main: nothing, or the corpus of a
\* reference video of one or two frames
ReferenceCorpora ==
    {load_reference_data(x, e, TRUE, "all").value :
        x \in BOOLEAN,
        e \in {ExtractedNone,
               Extracted(ReferenceFrames(1, 0, Unreadable, 0, Unreadable, TRUE)),
               Extracted(ReferenceFrames(2, 1, Unreadable, 0, Unreadable, TRUE))}}

\* where main goes on after a poll that found nothing and after the last
\* video of a poll: the top of while True (lines 532-533)
LoopAgainFromLoad == "load_reference"
LoopAgain == "poll"

\* main, lines 521-531: the reference data is loaded; without it main returns
LoadReference ==
    /\ pc = "load_reference"
    /\ \E corpus \in ReferenceCorpora :
         /\ reference_data' = corpus
         /\ pc' = IF corpus = <<>> THEN "returned" ELSE "poll"
    /\ UNCHANGED <<segvars, callvars, storevars, loopvars, localvars, interrupted, run,
                   catalog, files>>

\* main loop, lines 533-543: poll; sleep and poll again when nothing is there
Poll ==
    /\ pc = "poll"
    /\ \E stream_ok \in BOOLEAN :
         /\ pending_videos' = get_pending_videos(youtube_videos, stream_ok)
         /\ IF pending_videos' = <<>>
            THEN /\ pc' = LoopAgain
                 /\ UNCHANGED <<position, localvars, run>>
            ELSE Enter(1)
    /\ UNCHANGED <<segvars, callvars, storevars, interrupted, catalog, reference_data, files>>

MarkProcessing ==
    /\ pc = "mark_processing"
    /\ \E write_ok \in BOOLEAN :
         youtube_videos' = mark_as_processing(youtube_videos, video_id, write_ok)
    /\ pc' = StepAfter("mark_processing")
    /\ files' = NoFiles
    /\ UNCHANGED <<segvars, callvars, processed_videos, loopvars, localvars, interrupted,
                   run, catalog, reference_data>>

\* lines 377-389; download_video removes its file when the download fails
Download ==
    /\ pc = "download"
    /\ \/ /\ video_path' = "file"
          /\ files' = [files EXCEPT !.video = TRUE]
          /\ pc' = StepAfter("download")
          /\ UNCHANGED <<exc, run>>
       \/ /\ Raise("download", "Download failed")
          /\ UNCHANGED <<video_path, files>>
    /\ UNCHANGED <<segvars, callvars, storevars, loopvars, video_id, fps, target_frames,
                   copied_frames, timestamps, interrupted, catalog, reference_data>>

\* lines 392-404
VideoInfo ==
    /\ pc = "video_info"
    /\ \/ /\ fps' = catalog[video_id].fps
          /\ pc' = StepAfter("video_info")
          /\ UNCHANGED <<exc, run>>
       \/ /\ Raise("video_info", "Failed to read video info")
          /\ UNCHANGED fps
    /\ UNCHANGED <<segvars, callvars, storevars, loopvars, video_id, video_path, target_frames,
                   copied_frames, timestamps, interrupted, catalog, reference_data, files>>

\* the frame files an extraction has saved by the time it fails on a later
\* frame of a video of n frames (extract_frames_cpu raises out of its loop,
\* extract_frames_gpu leaves its loop for its handler and returns None)
SavedBeforeFailure(n) == 0..(n - 1)

\* lines 407-420: no frame (or None) is an error like an exception, and
\* target_frames then is not the list of the files that were saved
ExtractFrames ==
    /\ pc = "extract"
    /\ \/ /\ target_frames' = Len(catalog[video_id].flags)
          /\ files' = [files EXCEPT !.frames = Len(catalog[video_id].flags)]
          /\ pc' = StepAfter("extract")
          /\ UNCHANGED <<exc, run>>
       \/ /\ Raise("extract", "Frame extraction failed")
          /\ \E saved \in SavedBeforeFailure(Len(catalog[video_id].flags)) :
                files' = [files EXCEPT !.frames = saved]
          /\ UNCHANGED target_frames
    /\ UNCHANGED <<segvars, callvars, storevars, loopvars, video_id, video_path, fps,
                   copied_frames, timestamps, interrupted, catalog, reference_data>>

\* lines 423-436
CompareFrames ==
    /\ pc = "compare"
    /\ \/ /\ copied_frames' = compare_frames(target_frames, catalog[video_id].flags)
          /\ pc' = StepAfter("compare")
          /\ UNCHANGED <<exc, run>>
       \/ /\ Raise("compare", "Comparison failed")
          /\ UNCHANGED copied_frames
    /\ UNCHANGED <<segvars, callvars, storevars, loopvars, video_id, video_path, fps,
                   target_frames, timestamps, interrupted, catalog, reference_data, files>>

\* lines 438-451: the percentage, the segments and the console timeline
Results ==
    /\ pc = "results"
    /\ LET segments == generate_timestamps(AsFlags(copied_frames), fps, DefaultMinDuration)
       IN  IF segments.error = "None"
           THEN /\ timestamps' = segments.value
                /\ pc' = StepAfter("results")
                /\ UNCHANGED <<exc, run>>
           ELSE /\ Raise("results", "division by zero")
                /\ UNCHANGED timestamps
    /\ UNCHANGED <<segvars, callvars, storevars, loopvars, video_id, video_path, fps,
                   target_frames, copied_frames, interrupted, catalog, reference_data, files>>

\* line 454: save_timeline_to_file
Timeline ==
    /\ pc = "timeline"
    /\ \/ /\ pc' = StepAfter("timeline")
          /\ UNCHANGED <<exc, run>>
       \/ Raise("timeline", "timeline file")
    /\ UNCHANGED <<segvars, callvars, storevars, loopvars, video_id, video_path, fps,
                   target_frames, copied_frames, timestamps, interrupted, catalog, reference_data, files>>

\* lines 457-482: save_results returns False on a failed write, which
\* process_video does not look at
Save ==
    /\ pc = "save"
    /\ \E write_ok \in BOOLEAN :
         LET stores == save_results(youtube_videos, processed_videos, video_id,
                           ResultDocument(video_id, copied_frames, target_frames, timestamps),
                           write_ok)
         IN  /\ youtube_videos' = stores.youtube
             /\ processed_videos' = stores.processed
    /\ run' = [run EXCEPT !.saved = TRUE]
    /\ pc' = StepAfter("save")
    /\ UNCHANGED <<segvars, callvars, loopvars, localvars, interrupted, catalog, reference_data, files>>

\* lines 484-487: except Exception
Failed ==
    /\ pc = "failed"
    /\ \E write_ok \in BOOLEAN :
         /\ youtube_videos' = mark_as_failed(youtube_videos, video_id, exc, write_ok)
         /\ run' = [run EXCEPT !.mark_failed = exc,
                               !.mark_failed_ok = write_ok /\ HasDoc(youtube_videos, video_id)]
    /\ pc' = "cleanup"
    /\ UNCHANGED <<segvars, callvars, processed_videos, loopvars, localvars, interrupted, catalog, reference_data, files>>

\* cleanup, lines 220-236: the video file when video_path names one, and the
\* frame files that target_frames lists (os.remove is taken to succeed)
cleanup(on_disk, path, frames) ==
    [video |-> IF path # "None" THEN FALSE ELSE on_disk.video,
     frames |-> IF frames > 0 THEN on_disk.frames - frames ELSE on_disk.frames]

\* for video in pending_videos (lines 546-551): the loop goes on to the next
\* video of the list however the run for the last one ended
MoreVideosUnlessFailed(k, videos, last_run) == k < Len(videos) /\ last_run.raised = "None"
MoreVideos(k, videos, last_run) == k < Len(videos)

\* lines 488-491 and the for loop of main: finally, then the next video of
\* the list, a new poll after the last one, or the end of the loop when a
\* KeyboardInterrupt is propagating
Cleanup ==
    /\ pc = "cleanup"
    /\ files' = cleanup(files, video_path, target_frames)
    /\ IF interrupted
       THEN /\ pc' = "stopped"
            /\ UNCHANGED <<loopvars, localvars, run>>
       ELSE IF MoreVideos(position, pending_videos, run)
       THEN /\ UNCHANGED pending_videos
            /\ Enter(position + 1)
       ELSE /\ pc' = LoopAgain
            /\ position' = 0
            /\ Return
            /\ UNCHANGED pending_videos
    /\ UNCHANGED <<segvars, callvars, storevars, interrupted, catalog, reference_data>>

\* KeyboardInterrupt: not an Exception, so the except clause of process_video
\* does not catch it; finally runs and main leaves its loop
Interrupt ==
    /\ pc \notin {"stopped", "returned"}
    /\ ~interrupted
    /\ interrupted' = TRUE
    /\ run' = [run EXCEPT !.interrupted_at = pc]
    /\ pc' = IF InTry \/ pc = "failed" THEN "cleanup" ELSE "stopped"
    /\ UNCHANGED <<segvars, callvars, storevars, loopvars, localvars, catalog, reference_data, files>>

Next ==
    \/ LoadReference
    \/ Poll
    \/ MarkProcessing
    \/ Download
    \/ VideoInfo
    \/ ExtractFrames
    \/ CompareFrames
    \/ Results
    \/ Timeline
    \/ Save
    \/ Failed
    \/ Cleanup
    \/ Interrupt

Spec == Init /\ [][Next]_vars

SpecBatch == BatchInit /\ [][Next]_vars

\* ================================================================ claims
\* ------------------------------------------------ segmenter (SpecSeg)
Called == Len(returned) >= 1

\* the frames the caller reported as matched: the true positions of a flag
\* array, the values of an index list
Matched ==
    IF AllBool(given) THEN {i - 1 : i \in {j \in 1..Len(given) : given[j].val # 0}}
                      ELSE {given[i].val : i \in 1..Len(given)}

\* the maximal runs of consecutive matched frames, as <<first, last>>
MaximalRuns ==
    {span \in Matched \X Matched :
        /\ span[1] <= span[2]
        /\ \A f \in span[1]..span[2] : f \in Matched
        /\ (span[1] - 1) \notin Matched
        /\ (span[2] + 1) \notin Matched}

FramesOf(result) ==
    [k \in 1..Len(result.value) |->
        <<result.value[k].start_frame, result.value[k].end_frame>>]

SpecExampleFlags ==
    <<PyBool(TRUE), PyBool(TRUE), PyBool(TRUE), PyBool(FALSE), PyBool(FALSE),
      PyBool(TRUE), PyBool(TRUE)>>

\* C1: for a boolean flag array and fps > 0 the call returns a list in which
\* every segment is a run of consecutive positions whose flags are all true,
\* with a false flag (or the end of the array) on either side, and in which
\* each segment ends before the next one starts.
C1_SegmentsAreMaximalRuns ==
    (Called /\ AllBool(given) /\ arg_fps > 0) =>
        LET result == returned[1]
            flag(f) == given[f + 1].val # 0
        IN  /\ result.error = "None"
            /\ \A k \in 1..Len(result.value) :
                 LET seg == result.value[k]
                 IN  /\ 0 <= seg.start_frame
                     /\ seg.start_frame <= seg.end_frame
                     /\ seg.end_frame <= Len(given) - 1
                     /\ \A f \in seg.start_frame..seg.end_frame : flag(f)
                     /\ (seg.start_frame = 0 \/ ~flag(seg.start_frame - 1))
                     /\ (seg.end_frame = Len(given) - 1 \/ ~flag(seg.end_frame + 1))
            /\ \A j, k \in 1..Len(result.value) :
                 j < k => result.value[j].end_frame < result.value[k].start_frame

C1_Witness ==
    /\ Called /\ AllBool(given) /\ arg_fps > 0
    /\ returned[1].error = "None"
    /\ Len(returned[1].value) >= 3

C3_NonPositiveFpsRaises ==
    (Called /\ arg_fps <= 0) => returned[1].error # "None"

SortedDuplicateFree ==
    LET indices == SortedSet(Matched)
    IN  [i \in 1..Len(indices) |-> PyInt(indices[i])]

C9_DependsOnIndexSetOnly ==
    (Called /\ ~AllBool(given)) =>
        returned[1] = generate_timestamps(SortedDuplicateFree, arg_fps, arg_min_duration)

C9_Witness ==
    /\ Called /\ ~AllBool(given)
    /\ \E i \in 1..Len(given) - 1 : given[i].val > given[i + 1].val
    /\ \E i, j \in 1..Len(given) : i # j /\ given[i].val = given[j].val
    /\ returned[1].error = "None" /\ Len(returned[1].value) >= 1

\* C10: every segment of a returned list has frame_count = end_frame -
\* start_frame + 1 >= 1 and duration_seconds equal to frame_count / fps
\* rounded to hundredths (no hundredth is nearer to the exact quotient).
C10_FrameCountAndDuration ==
    (Called /\ returned[1].error = "None") =>
        \A k \in 1..Len(returned[1].value) :
            LET seg == returned[1].value[k]
                frames == seg.end_frame - seg.start_frame + 1
            IN  /\ seg.frame_count = frames
                /\ seg.frame_count >= 1
                /\ 2 * Abs(100 * frames - seg.duration_seconds * arg_fps) <= Abs(arg_fps)

C10_Witness ==
    /\ Called /\ returned[1].error = "None"
    /\ \E k \in 1..Len(returned[1].value) :
         /\ returned[1].value[k].frame_count = 2
         /\ returned[1].value[k].duration_seconds = 67

\* ------------------------------------------------------ worker (Spec)
HasResult(id) == \E r \in processed_videos : r.video_id = id

\* C4: no result with status 'completed' is stored for a video whose file
\* reports fps <= 0.
C4_NoVerdictForNonPositiveFps ==
    \A r \in processed_videos :
        r.status = "completed" => catalog[r.video_id].fps > 0

\* C6: a run of process_video in which a step of the try block raised has,
\* when it reaches finally, called mark_as_failed with the text of that
\* error and not called save_results; the video has no result, and its
\* document carries status 'failed' and the error when the write went through.
C6_FailureReportedNotSaved ==
    (pc = "cleanup" /\ ~interrupted /\ run.raised # "None") =>
        /\ run.mark_failed = run.raised
        /\ ~run.saved
        /\ ~HasResult(video_id)
        /\ run.mark_failed_ok =>
              /\ HasDoc(youtube_videos, video_id)
              /\ DocOf(youtube_videos, video_id).status = "failed"
              /\ DocOf(youtube_videos, video_id).error = run.raised

C6_Witness ==
    /\ pc = "cleanup" /\ ~interrupted
    /\ run.raised = "timeline file"
    /\ run.mark_failed_ok
    /\ timestamps # <<>>

\* C7: a run stopped by a KeyboardInterrupt before save_results was reached
\* leaves no result for its video; and every stored result lists all the
\* segments of the video's complete flag sequence.
C7_NoPartialResult ==
    /\ run.interrupted_at \in {"mark_processing", "download", "video_info", "extract",
                               "compare", "results", "timeline", "save"}
          => ~HasResult(video_id)
    /\ \A r \in processed_videos :
          LET content == catalog[r.video_id]
              segments == generate_timestamps(AsFlags(content.flags), content.fps,
                                              DefaultMinDuration)
          IN  /\ segments.error = "None"
              /\ r.total_segments = Len(segments.value)
              /\ r.timestamps =
                     [k \in 1..Len(segments.value) |->
                         [start |-> WithoutMillis(segments.value[k].start),
                          end |-> WithoutMillis(segments.value[k].end)]]

C7_Witness ==
    /\ pc = "stopped"
    /\ run.interrupted_at = "save"
    /\ Len(timestamps) >= 2
    /\ ~HasResult(video_id)

\* C14: the copy_percentage of every stored result, in hundredths of a
\* percent, is 100 * (true flags) / (flags) of the video rounded to two
\* decimals (no hundredth is nearer), and lies between 0 and 100.
C14_CopyPercentage ==
    \A r \in processed_videos :
        LET flags == catalog[r.video_id].flags
        IN  /\ 2 * Abs(10000 * Count(flags) - r.copy_percentage * Len(flags)) <= Len(flags)
            /\ 0 <= r.copy_percentage
            /\ r.copy_percentage <= 10000

C14_Witness ==
    \E r \in processed_videos :
        /\ Len(catalog[r.video_id].flags) = 3
        /\ r.copy_percentage = 6667

\* C23: when process_video returns (finally is reached without an
\* interrupt) its video is not left in status 'processing': either the
\* result is stored with status 'completed' and the document is gone from
\* youtube_videos, or the document is there with status 'failed'; also when
\* a write to the store fails.
C23_NotLeftProcessing ==
    (pc = "cleanup" /\ ~interrupted) =>
        \/ /\ \E r \in processed_videos : r.video_id = video_id /\ r.status = "completed"
           /\ ~HasDoc(youtube_videos, video_id)
        \/ /\ HasDoc(youtube_videos, video_id)
           /\ DocOf(youtube_videos, video_id).status = "failed"

\* C26: when process_video has returned (finally has run without an
\* interrupt), whether its run succeeded or failed at any step, the
\* downloaded video file and every frame file extracted for the video are
\* gone from the disk.
C26_TemporaryFilesDeleted ==
    (pc \in {"poll", "mark_processing", "stopped"} /\ ~interrupted) => files = NoFiles

\* C27: every stored result with copied = true lists at least one
\* timestamp range.
C27_CopiedHasTimestamps ==
    \A r \in processed_videos : r.copied => r.timestamps # <<>>

C16_ReferenceComputedOnce ==
    /\ [](InRun => (reference_data # <<>> /\ reference_data \in ReferenceCorpora))
    /\ [][pc # "load_reference" =>
             (reference_data' = reference_data /\ pc' # "load_reference")]_vars

\* the second video of a poll is being compared with the corpus that was
\* loaded from a reference video whose first frame could not be read
C16_Witness ==
    /\ pc = "compare"
    /\ position = 2
    /\ Len(reference_data) = 1
    /\ reference_data[1][1].confidence = FrameConfidence(1)

\* ---------------------------------------------- time formatting (SpecFormat)
TimeShown == call.fn = "format" /\ answer.time # <<>>

\* the fields of the time shown; hours is 0 when the field is left out
ShownHours == IF Len(answer.time) = 4 THEN answer.time[1] ELSE 0
ShownMinutes == answer.time[Len(answer.time) - 2]
ShownSeconds == answer.time[Len(answer.time) - 1]
ShownMilliseconds == answer.time[Len(answer.time)]

\* floor((frame_number / fps - floor(frame_number / fps)) * 1000)
ExactMilliseconds == (1000 * (call.frame_number % call.fps)) \div call.fps

WholeSecondsAndHourField ==
    /\ ShownHours * 3600 + ShownMinutes * 60 + ShownSeconds
          = call.frame_number \div call.fps
    /\ ShownMinutes >= 0 /\ ShownMinutes < 60
    /\ ShownSeconds >= 0 /\ ShownSeconds < 60
    /\ ShownMilliseconds >= 0 /\ ShownMilliseconds < 1000
    /\ (Len(answer.time) = 4) <=> (call.frame_number >= 3600 * call.fps)
    /\ (call.frame_number = 0 /\ call.fps = 30) => answer.time = <<0, 0, 0>>
    /\ (call.frame_number = 90 /\ call.fps = 30) => answer.time = <<0, 3, 0>>
    /\ (call.frame_number = 108000 /\ call.fps = 30) => answer.time = <<1, 0, 0, 0>>

\* C11 as claimed: the time shown for frame f at fps > 0 has hours * 3600 +
\* minutes * 60 + seconds = floor(f / fps), minutes and seconds below 60,
\* milliseconds = floor(fractional second * 1000) below 1000, the hour field
\* exactly when f / fps >= 3600, and the three times of the examples.
C11_ExactDecomposition ==
    TimeShown => (WholeSecondsAndHourField /\ ShownMilliseconds = ExactMilliseconds)

\* C11 as amended: the same for hours, minutes, seconds and the hour field;
\* the milliseconds shown are floor(fractional second * 1000) or one less,
\* and one less only when fractional second * 1000 is a whole number above 0
\* (the double of f / fps then lies below the exact quotient).
C11_DecompositionUpToFloatFloor ==
    TimeShown =>
        /\ WholeSecondsAndHourField
        /\ ShownMilliseconds \in {ExactMilliseconds, ExactMilliseconds - 1}
        /\ ShownMilliseconds # ExactMilliseconds =>
               (1000 * (call.frame_number % call.fps)) % call.fps = 0

C11_Witness ==
    /\ TimeShown
    /\ call.frame_number = 23 /\ call.fps = 10
    /\ answer.time = <<0, 2, 299>>

DurationShown == call.fn = "format" /\ answer.duration.tier # "None"

\* C12: a duration d = n / fps is shown in the tier "s" when d < 60, "m"
\* when 60 <= d < 3600 and "h" when d >= 3600; hours and minutes are the
\* floor-division components of d, and the seconds shown with one decimal
\* are below 60.0 in the tiers "m" and "h".
C12_TiersAndSecondsBelowSixty ==
    DurationShown =>
        LET n == call.frame_number
            p == call.fps
            shown == answer.duration
        IN  /\ shown.tier = "s" <=> n < 60 * p
            /\ shown.tier = "m" <=> (60 * p <= n /\ n < 3600 * p)
            /\ shown.tier = "h" <=> n >= 3600 * p
            /\ shown.tier = "m" => shown.m = n \div (60 * p)
            /\ shown.tier = "h" => /\ shown.h = n \div (3600 * p)
                                   /\ shown.m = (n % (3600 * p)) \div (60 * p)
            /\ shown.tier \in {"m", "h"} => shown.tenths < 600

C28_CopiedIffPercentageAtThreshold ==
    (call.fn = "verdict" /\ answer # NoCall) =>
        (answer.copied <=> answer.copy_percentage >= 100 * MinSimilarityPercent)

FramesRead ==
    IF call.import_ok /\ call.video.total_frames < Len(call.video.film)
    THEN call.video.total_frames
    ELSE Len(call.video.film)

\* C15: in a returned list the path at position k (from 0) holds source
\* frame k * frame_interval, and every frame read at a multiple of
\* frame_interval has its path in the list.
C15_PositionIsFrameIndex ==
    (call.fn = "extract_frames" /\ answer # NoCall /\ answer.kind = "list") =>
        /\ \A k \in 1..Len(answer.frames) :
              answer.frames[k].source = (k - 1) * call.frame_interval
        /\ \A f \in 0..(FramesRead - 1) :
              f % call.frame_interval = 0 =>
                  \E k \in 1..Len(answer.frames) : answer.frames[k].source = f

\* C21: extract_frames_gpu terminates on every input and returns a list of
\* frame paths or None, also when a read fails before the frame count of
\* the metadata is reached.
C21_GpuExtractionTerminates ==
    (call.fn = "extract_frames" /\ call.import_ok /\ answer # NoCall) =>
        answer.kind \in {"list", "None"}

\* C24: extract_frames never hands on the failure result (None) of
\* extract_frames_gpu: when the GPU extraction is unavailable or fails, the
\* result is that of extract_frames_cpu.
C24_CpuFallbackOnGpuFailure ==
    (call.fn = "extract_frames" /\ answer # NoCall /\ answer # ExtractionHangs) =>
        /\ answer # ExtractedNone
        /\ extract_frames_gpu(call.video, call.frame_interval) = ExtractedNone
              => answer = extract_frames_cpu(call.video, call.frame_interval)

\* ------------------------------------------------- detector (SpecDetect)
DetectReturned == call.fn = "detect" /\ answer # NoCall

\* the detection records of the lists a call returned
RecordsReturned ==
    UNION {{answer.value[i][k] : k \in 1..Len(answer.value[i])} :
              i \in 1..Len(answer.value)}

\* C18: detect never raises: an exception of the inference is caught, the
\* attempt is repeated, and when the repetition raises too the call returns
\* one empty list per image; an image (OpenCV) or a batch (Ultralytics) on
\* which the inference fails yields empty lists.
C18_DetectNeverRaises ==
    DetectReturned =>
        /\ answer.error = "None"
        /\ call.images.items = <<>> => answer.value = <<>>
        /\ ~call.using_ultralytics =>
              /\ Len(answer.value) = Len(call.images.items)
              /\ \A i \in 1..Len(call.images.items) :
                    call.images.items[i].kind # "ok" => answer.value[i] = <<>>
        /\ (/\ call.using_ultralytics
            /\ Len(call.images.items) <= 4
            /\ \E i \in 1..Len(call.images.items) :
                  call.images.items[i].kind = "bad_input")
              => answer.value = Empties(Len(call.images.items))

C18_Witness ==
    /\ DetectReturned
    /\ call.using_ultralytics
    /\ call.images = AsList(<<>>)
    /\ answer = Returned(<<>>)

C22_OneListPerImage ==
    DetectReturned =>
        /\ Len(answer.value) = Len(call.images.items)
        /\ \A i \in 1..Len(answer.value) :
              answer.value[i] \in
                  {<<>>, detect(SingleImage(call.images.items[i]),
                                call.using_ultralytics, call.nms).value[1]}

\* --------------------------------------------- reference corpus (SpecLoad)
LoadReturned ==
    call.fn = "load_reference_data" /\ answer # NoCall /\ answer.error = "None"

\* the frames extract_frames gave, and those of them cv2.imread could read
ExtractedFrames == IF call.extracted.kind = "list" THEN call.extracted.frames ELSE <<>>
ReadableFrames == SelectSeq(ExtractedFrames, LAMBDA f : f.image # Unreadable)

\* the source frame a detection set of the corpus was computed from
FrameOfSet(detections) == detections[1].confidence - FrameConfidence(0)

C13_OneFlagPerCandidateFrame ==
    (call.fn = "match_frames" /\ answer # NoCall) =>
        /\ Len(answer.flags) = Len(call.candidate_frames)
        /\ \A i \in 1..Len(answer.flags) :
              /\ answer.flags[i] \in BOOLEAN
              /\ call.candidate_frames[i] = FailedFrame => ~answer.flags[i]
              /\ call.reference = <<>> => ~answer.flags[i]
              /\ call.candidate_frames[i].detections \in {<<>>, <<Car(20)>>}
                   => ~answer.flags[i]
              /\ (call.candidate_frames[i] = Detected(<<Car(90)>>)
                     /\ \E k \in 1..Len(call.reference) : call.reference[k] = <<Car(90)>>)
                   => answer.flags[i]
        /\ (call.reference = << <<Car(90)>> >> /\ call.threshold = 50
               /\ call.candidate_frames = <<Detected(<<Car(90)>>), Detected(<<Car(20)>>)>>)
             => answer.flags = <<TRUE, FALSE>>

C13_Witness ==
    /\ call.fn = "match_frames" /\ answer # NoCall
    /\ call.reference = <<>>
    /\ call.candidate_frames = <<Detected(<<Car(90)>>), FailedFrame>>
    /\ answer.flags = <<FALSE, FALSE>>

\* C20: the similarity of any two detection sets, with repeated labels,
\* confidences of zero or missing fields, is a score in [0, 1].
C20_SimilarityInUnitInterval ==
    (call.fn = "similarity" /\ answer # NoCall) =>
        /\ answer.score.den > 0
        /\ 0 <= answer.score.num
        /\ answer.score.num <= answer.score.den

C20_Witness ==
    /\ call.fn = "similarity" /\ answer # NoCall
    /\ call.reference = <<Car(50), Car(90)>>
    /\ call.candidate = <<[label |-> "car"], Car(50)>>
    /\ answer.score = [num |-> 50, den |-> 90]

====
